---- MODULE Spec2Model ----
(***************************************************************************)
(* Text-to-SQL agent: the SQL safety validator (validate_sql), the         *)
(* per-thread connection cache (get_db_connection), the execution tool     *)
(* (execute_sql) and the tool-calling agent loop of                        *)
(* src/text_to_sql_agent/src/agent/graph.py.                               *)
(*                                                                         *)
(* A text is a sequence of chunks; each chunk stands for the literal       *)
(* characters of its name and a text for their concatenation:              *)
(*   "SELECT" "DROP" "REPLACE" "COPY"  SQL words (letters only)            *)
(*   "a"                               an identifier letter                *)
(*   "sql"                             the letters s,q,l                   *)
(*   " "                               one space                           *)
(*   ";"                               the statement terminator            *)
(*   "BT3"                             three backticks (not a word)        *)
(*   "-"                               one minus sign                      *)
(*   "/*"                              a slash and an asterisk             *)
(* No concatenation of two or more word chunks spells a keyword, so a      *)
(* whole word of the text is a keyword iff it is a single keyword chunk.   *)
(***************************************************************************)
EXTENDS Integers, Sequences, FiniteSets, TLC

\* ------------------------------------------------------------------ bounds
MaxLen == 4

\* tool calls the agent loop is followed for
MaxToolCalls == 8

\* --------------------------------------------------------------- alphabet
WordChunks == {"SELECT", "DROP", "REPLACE", "COPY", "a", "sql"}

Alphabet == WordChunks \cup {" ", ";", "BT3", "-", "/*"}

Texts(n) == UNION {[1..k -> Alphabet] : k \in 0..n}

IsWord(c) == c \in WordChunks

\* ------------------------------------------------- python string helpers
RECURSIVE lstrip(_)
lstrip(s) == IF s # <<>> /\ Head(s) = " " THEN lstrip(Tail(s)) ELSE s

RECURSIVE rstrip(_)
rstrip(s) ==
    IF s # <<>> /\ s[Len(s)] = " " THEN rstrip(SubSeq(s, 1, Len(s) - 1)) ELSE s

strip(s) == rstrip(lstrip(s))

\* str.rstrip(";")
RECURSIVE rstrip_semicolon(_)
rstrip_semicolon(s) ==
    IF s # <<>> /\ s[Len(s)] = ";"
    THEN rstrip_semicolon(SubSeq(s, 1, Len(s) - 1))
    ELSE s

\* str.count(";")
RECURSIVE count_semicolon(_)
count_semicolon(s) ==
    IF s = <<>> THEN 0
    ELSE (IF Head(s) = ";" THEN 1 ELSE 0) + count_semicolon(Tail(s))

endswith_semicolon(s) == s # <<>> /\ s[Len(s)] = ";"

\* re.sub of the pattern "terminator, optional whitespace, end of text" by
\* the empty string: the one match is the last ';' when only whitespace
\* follows it.
\* variant: the trailing terminator is left in place
sub_trailing_terminator_kept(s) == s

sub_trailing_terminator(s) ==
    LET t == rstrip(s)
    IN IF endswith_semicolon(t) THEN SubSeq(t, 1, Len(t) - 1) ELSE s

\* re.sub of the pattern "three backticks, sql, optional whitespace"
\* (IGNORECASE) by the empty string: one left-to-right pass over
\* non-overlapping matches; the scan resumes after each match and never
\* re-reads what a removal has joined.
RECURSIVE sub_fence(_)
sub_fence(s) ==
    IF s = <<>> THEN <<>>
    ELSE IF Len(s) >= 2 /\ s[1] = "BT3" /\ s[2] = "sql"
         THEN sub_fence(lstrip(SubSeq(s, 3, Len(s))))
         ELSE <<Head(s)>> \o sub_fence(Tail(s))

\* ------------------------------------------------------------- vocabulary
forbidden_types ==
    {"INSERT", "UPDATE", "DELETE", "DROP", "CREATE", "ALTER", "TRUNCATE",
     "GRANT", "REVOKE", "MERGE", "COMMIT"}

\* the alternations of the first two dangerous_patterns
dangerous_words ==
    {"INSERT", "UPDATE", "DELETE", "ALTER", "DROP", "CREATE", "REPLACE",
     "TRUNCATE", "GRANT", "REVOKE", "MERGE", "COMMIT", "EXEC", "EXECUTE"}

\* ------------------------------------------------------- sqlparse (lexer)
\* The lexer reads characters, so a "BT3" chunk is read as three backticks.
RECURSIVE expand_backticks(_)
expand_backticks(s) ==
    IF s = <<>> THEN <<>>
    ELSE (IF Head(s) = "BT3" THEN <<"BT", "BT", "BT">> ELSE <<Head(s)>>)
         \o expand_backticks(Tail(s))

\* Token type sqlparse gives a whole word.
ttype_of(word) ==
    CASE word \in {"SELECT", "INSERT", "DELETE", "UPDATE", "REPLACE", "MERGE"}
           -> "DML"
      [] word \in {"DROP", "CREATE", "ALTER"} -> "DDL"
      [] word \in {"COPY", "sql", "TRUNCATE", "GRANT", "REVOKE", "COMMIT",
                   "EXEC", "EXECUTE"} -> "Keyword"
      [] OTHER -> "Name"

\* Last position of the word that starts at p.
RECURSIVE word_end(_, _)
word_end(e, p) ==
    IF p + 1 <= Len(e) /\ IsWord(e[p + 1]) THEN word_end(e, p + 1) ELSE p

\* The backtick-quoted name pattern: a backtick, then greedily any number of
\* (two backticks | one non-backtick character), then a backtick.  q is the
\* position after the units consumed so far; the result is the position of
\* the closing backtick of the longest match, or 0 when there is none.
RECURSIVE backtick_close(_, _)
backtick_close(e, q) ==
    IF q > Len(e) THEN 0
    ELSE IF e[q] # "BT" THEN backtick_close(e, q + 1)
    ELSE IF q + 1 <= Len(e) /\ e[q + 1] = "BT"
         THEN LET r == backtick_close(e, q + 2) IN IF r # 0 THEN r ELSE q
         ELSE q

Tok(t, v) == [ttype |-> t, value |-> v]

\* sqlparse.lexer: at each position the first pattern that matches wins.
RECURSIVE lex(_, _)
lex(e, p) ==
    IF p > Len(e) THEN <<>>
    ELSE IF e[p] = "-" /\ p + 1 <= Len(e) /\ e[p + 1] = "-"
         THEN <<Tok("Comment", "--")>>     \* runs to the end of the line
    ELSE IF e[p] = " "
         THEN <<Tok("Whitespace", " ")>> \o lex(e, p + 1)
    ELSE IF e[p] = "BT"
         THEN LET c == backtick_close(e, p + 1)
              IN IF c # 0 THEN <<Tok("Name", "quoted")>> \o lex(e, c + 1)
                 ELSE <<Tok("Error", "BT")>> \o lex(e, p + 1)
    ELSE IF IsWord(e[p])
         THEN LET q == word_end(e, p)
              IN (IF q = p THEN <<Tok(ttype_of(e[p]), e[p])>>
                  ELSE <<Tok("Name", "identifier")>>) \o lex(e, q + 1)
    ELSE IF e[p] \in {"-", "/*"}  \* no closing asterisk-slash: no comment
         THEN <<Tok("Operator", e[p])>> \o lex(e, p + 1)
    ELSE <<Tok("Punctuation", e[p])>> \o lex(e, p + 1)

\* statement.flatten() of the one statement of a text
flatten(clean_query) == lex(expand_backticks(clean_query), 1)

\* sqlparse.parse: no statement for the empty text; the text holds no
\* terminator here, so otherwise one statement.
parse(clean_query) ==
    IF clean_query = <<>> THEN <<>> ELSE <<flatten(clean_query)>>

is_keyword(token) == token.ttype \in {"DML", "DDL", "Keyword"}

\* Statement.get_type(): the first token that is neither whitespace nor a
\* comment decides.
RECURSIVE get_type(_)
get_type(statement) ==
    IF statement = <<>> THEN "UNKNOWN"
    ELSE IF Head(statement).ttype \in {"Whitespace", "Comment"}
         THEN get_type(Tail(statement))
    ELSE IF Head(statement).ttype \in {"DML", "DDL"}
         THEN Head(statement).value
    ELSE "UNKNOWN"

\* the inner loop of validate_sql: the first keyword token of the statement
\* that is in forbidden_types, as a list of at most one entry
RECURSIVE first_forbidden_token(_)
first_forbidden_token(statement) ==
    IF statement = <<>> THEN <<>>
    ELSE IF is_keyword(Head(statement))
            /\ Head(statement).value \in forbidden_types
         THEN <<Head(statement).value>>
         ELSE first_forbidden_token(Tail(statement))

\* the outer loop of validate_sql over the parsed statements
RECURSIVE found_statements(_)
found_statements(parsed) ==
    IF parsed = <<>> THEN <<>>
    ELSE (IF get_type(Head(parsed)) \in forbidden_types
          THEN <<get_type(Head(parsed))>>
          ELSE first_forbidden_token(Head(parsed)))
         \o found_statements(Tail(parsed))

\* ------------------------------------------------- dangerous_patterns scan
\* a whole word (word boundary on both sides) of dangerous_words
has_dangerous_word(s) ==
    \E i \in 1..Len(s) :
        /\ s[i] \in dangerous_words
        /\ (i = 1 \/ ~IsWord(s[i - 1]))
        /\ (i = Len(s) \/ ~IsWord(s[i + 1]))

\* two adjacent minus signs
has_line_comment(s) == \E i \in 1..(Len(s) - 1) : s[i] = "-" /\ s[i + 1] = "-"

\* a slash directly followed by an asterisk
has_block_comment(s) == \E i \in 1..Len(s) : s[i] = "/*"

matches_dangerous_pattern(s) ==
    has_dangerous_word(s) \/ has_line_comment(s) \/ has_block_comment(s)

\* ------------------------------------------------------------ validate_sql
Error(msg, list) ==
    [status |-> "ERROR", message |-> msg, forbidden_list |-> list,
     clean_query |-> <<>>]

Valid(clean_query) ==
    [status |-> "Valid", message |-> "", forbidden_list |-> <<>>,
     clean_query |-> clean_query]

\* variant: the except branch trusts the text, the pattern scan is skipped
\* when sqlparse throws
validate_sql_fail_open(sql_query, sqlparse_raises) ==
    LET stripped == strip(sql_query)
        cleaned  == sub_fence(sub_trailing_terminator(stripped))
    IN IF count_semicolon(cleaned) > 0
          \/ (endswith_semicolon(cleaned)
              /\ count_semicolon(SubSeq(cleaned, 1, Len(cleaned) - 1)) > 0)
       THEN Error("Multiple SQL statements detected", <<>>)
       ELSE LET clean_query == strip(rstrip_semicolon(cleaned))
                found == IF sqlparse_raises THEN <<>>
                         ELSE found_statements(parse(clean_query))
            IN IF found # <<>>
               THEN Error("Forbidden SQL statements detected", found)
               ELSE IF ~sqlparse_raises
                       /\ matches_dangerous_pattern(clean_query)
                    THEN Error("Unsafe SQL pattern detected", <<>>)
                    ELSE Valid(clean_query)

\* sqlparse_raises: whether the sqlparse call throws inside the try block
validate_sql(sql_query, sqlparse_raises) ==
    LET stripped == strip(sql_query)
        cleaned  == sub_fence(sub_trailing_terminator(stripped))
    IN IF count_semicolon(cleaned) > 0
          \/ (endswith_semicolon(cleaned)
              /\ count_semicolon(SubSeq(cleaned, 1, Len(cleaned) - 1)) > 0)
       THEN Error("Multiple SQL statements detected", <<>>)
       ELSE LET clean_query == strip(rstrip_semicolon(cleaned))
                found == IF sqlparse_raises THEN <<>>
                         ELSE found_statements(parse(clean_query))
            IN IF found # <<>>
               THEN Error("Forbidden SQL statements detected", found)
               ELSE IF matches_dangerous_pattern(clean_query)
                    THEN Error("Unsafe SQL pattern detected", <<>>)
                    ELSE Valid(clean_query)

\* root statement type of a text, as validate_sql computes it
RootType(text) ==
    LET r == validate_sql(text, FALSE)
    IN IF r.clean_query = <<>> THEN "UNKNOWN"
       ELSE get_type(flatten(r.clean_query))

RootTypeIsSelect(text) == RootType(text) = "SELECT"

\* variant: the gate tests for a prefix validate_sql never produces
startswith_Invalid(validation_result) == validation_result.status = "Invalid"

startswith_ERROR(validation_result) == validation_result.status = "ERROR"

\* =================================================================== state
NumWorkers == 2
Workers == 1..NumWorkers

\* DB_PATHS: the two paths of the list, named by their position in it
DB_PATHS == {1, 2}

\* texts a caller hands to execute_sql: one that validate_sql accepts, a
\* statement that is not a SELECT and ends in a terminator, and one that it
\* rejects
Candidates == { <<"COPY", ";">>, <<"DROP">> }

\* A connection object is named by the thread whose duckdb.connect call
\* returned it and by that call's rank among the thread's successful calls.
Handle(w, k) == <<w, k>>
opened_by(h) == h[1]
NoConn == <<0, 0>>
NoText == <<"(none)">>
NoResult == [status |-> "(none)", message |-> "", forbidden_list |-> <<>>,
             clean_query |-> <<>>]
NoRan == [conn |-> NoConn, text |-> NoText]

VARIABLES
    \* harness applying validate_sql to one text and then to its result
    v_pc, v_query, v_raises, v_result, v_again,
    \* threading.local(): slot -> attributes conn, db_path
    thread_local,
    \* per thread, the connections its duckdb.connect calls have returned
    connections,
    \* one execute_sql call per worker thread
    pc, sql_query, validation_result, path_index, conn, tool_output,
    \* per call: <<path, outcome>> of each path tried, cache on entry,
    \* functions called, statement run
    attempted, entry_conn, called, ran,
    \* the tool-calling agent of one request
    agent

validator_vars == <<v_pc, v_query, v_raises, v_result, v_again>>
cache_vars == <<thread_local, connections>>
call_vars == <<pc, sql_query, validation_result, path_index, conn,
               tool_output, attempted, entry_conn, called, ran>>
vars == <<validator_vars, cache_vars, call_vars, agent>>

\* variant: one module-level slot shared by all threads
SlotShared(w) == 1

\* thread_local = threading.local(): each thread reads and writes its own slot
Slot(w) == w

NoAttrs == [conn |-> NoConn, db_path |-> 0]

\* the connection object behind a handle
Connection(h) == connections[h[1]][h[2]]

ValidatorOff ==
    /\ v_pc = "off" /\ v_query = NoText /\ v_raises = FALSE
    /\ v_result = NoResult /\ v_again = NoResult

WorkersIdle ==
    /\ thread_local = [s \in Workers |-> NoAttrs]
    /\ connections = [w \in Workers |-> <<>>]
    /\ pc = [w \in Workers |-> "idle"]
    /\ sql_query = [w \in Workers |-> NoText]
    /\ validation_result = [w \in Workers |-> NoResult]
    /\ path_index = [w \in Workers |-> 0]
    /\ conn = [w \in Workers |-> NoConn]
    /\ tool_output = [w \in Workers |-> "(none)"]
    /\ attempted = [w \in Workers |-> <<>>]
    /\ entry_conn = [w \in Workers |-> NoConn]
    /\ called = [w \in Workers |-> {}]
    /\ ran = [w \in Workers |-> NoRan]

AgentIdle(c) ==
    [pc |-> "model", collaborators |-> c, candidate |-> NoText,
     attempts |-> 0, tool_calls |-> 0, db_calls |-> 0, fix_calls |-> 0,
     analyzer_calls |-> 0,
     analyzer_early |-> FALSE, rows_at |-> -1, last_output |-> "(none)",
     no_source_calls |-> 0, calls_after_no_source |-> 0]

AgentOff == agent = [AgentIdle("(none)") EXCEPT !.pc = "off"]

Init == ValidatorOff /\ WorkersIdle /\ AgentOff

\* ============================================================ execute_sql
\* execute_sql(sql_query) up to the validation gate
ExecuteSqlCall(w, q, sqlparse_raises) ==
    /\ pc[w] = "idle"
    /\ LET r == validate_sql(q, sqlparse_raises)
       IN /\ sql_query' = [sql_query EXCEPT ![w] = q]
          /\ validation_result' = [validation_result EXCEPT ![w] = r]
          /\ called' = [called EXCEPT ![w] = {"validate_sql"}]
          /\ IF startswith_ERROR(r)
             THEN /\ tool_output' = [tool_output EXCEPT
                                       ![w] = "ERROR: Cannot execute SQL"]
                  /\ pc' = [pc EXCEPT ![w] = "returned"]
             ELSE /\ tool_output' = [tool_output EXCEPT ![w] = "(none)"]
                  /\ pc' = [pc EXCEPT ![w] = "get_db_connection"]
    /\ attempted' = [attempted EXCEPT ![w] = <<>>]
    /\ entry_conn' = [entry_conn EXCEPT ![w] = NoConn]
    /\ ran' = [ran EXCEPT ![w] = NoRan]
    /\ UNCHANGED <<path_index, conn, cache_vars, validator_vars>>

\* variant: the cache is never consulted
cache_is_empty_always(attrs) == TRUE

\* not hasattr(thread_local, "conn") or thread_local.conn is None
cache_is_empty(attrs) == attrs.conn = NoConn

\* get_db_connection: the cache test and, on a hit, return thread_local.conn
GetDbConnection(w) ==
    /\ pc[w] = "get_db_connection"
    /\ called' = [called EXCEPT ![w] = @ \cup {"get_db_connection"}]
    /\ entry_conn' = [entry_conn EXCEPT ![w] = thread_local[Slot(w)].conn]
    /\ IF cache_is_empty(thread_local[Slot(w)])
       THEN /\ path_index' = [path_index EXCEPT ![w] = 1]
            /\ pc' = [pc EXCEPT ![w] = "connect"]
            /\ conn' = conn
       ELSE /\ path_index' = path_index
            /\ pc' = [pc EXCEPT ![w] = "execute"]
            /\ conn' = [conn EXCEPT ![w] = thread_local[Slot(w)].conn]
    /\ UNCHANGED <<sql_query, validation_result, tool_output, attempted,
                   ran, cache_vars, validator_vars>>

\* the except branch of the loop: continue, or the for-else raise, which the
\* except clause of execute_sql turns into its second error text
NextPathOrRaise(w) ==
    IF path_index[w] + 1 \in DB_PATHS
    THEN /\ path_index' = [path_index EXCEPT ![w] = @ + 1]
         /\ pc' = [pc EXCEPT ![w] = "connect"]
         /\ tool_output' = tool_output
    ELSE /\ path_index' = path_index
         /\ pc' = [pc EXCEPT ![w] = "returned"]
         /\ tool_output' = [tool_output EXCEPT
                              ![w] = "ERROR: Failed to execute SQL query"]

\* what one pass through the try body can do: duckdb.connect raises; it
\* returns a connection and one of the four LOAD statements raises; all of
\* it runs
OpenOutcomes == {"connect_fails", "load_fails", "ok"}

\* one iteration of the loop: duckdb.connect(database=db_path), the two
\* assignments, the four LOAD statements, then break and return
\* thread_local.conn, or the except branch
Connect(w, outcome) ==
    /\ pc[w] = "connect"
    /\ attempted' = [attempted EXCEPT
                       ![w] = Append(@, <<path_index[w], outcome>>)]
    /\ IF outcome = "connect_fails"
       THEN UNCHANGED <<thread_local, connections>>
       ELSE /\ connections' = [connections EXCEPT ![w] =
                                  Append(@, [db_path |-> path_index[w],
                                             extensions_loaded |->
                                                 outcome = "ok"])]
            /\ thread_local' = [thread_local EXCEPT ![Slot(w)] =
                                  [conn |-> Handle(w, Len(connections[w]) + 1),
                                   db_path |-> path_index[w]]]
    /\ IF outcome = "ok"
       THEN /\ conn' = [conn EXCEPT ![w] = thread_local'[Slot(w)].conn]
            /\ pc' = [pc EXCEPT ![w] = "execute"]
            /\ UNCHANGED <<path_index, tool_output>>
       ELSE /\ NextPathOrRaise(w)
            /\ conn' = conn
    /\ UNCHANGED <<sql_query, validation_result, entry_conn, called, ran,
                   validator_vars>>

\* conn.execute(sql_query), fetchdf, to_string; a raise goes to the except
ConnExecute(w, raises) ==
    /\ pc[w] = "execute"
    /\ called' = [called EXCEPT ![w] = @ \cup {"conn.execute"}]
    /\ ran' = [ran EXCEPT ![w] = [conn |-> conn[w], text |-> sql_query[w]]]
    /\ tool_output' = [tool_output EXCEPT ![w] =
                         IF raises THEN "ERROR: Failed to execute SQL query"
                         ELSE "rows"]
    /\ pc' = [pc EXCEPT ![w] = "returned"]
    \* the locals of get_db_connection are gone with its frame
    /\ path_index' = [path_index EXCEPT ![w] = 0]
    /\ attempted' = [attempted EXCEPT ![w] = <<>>]
    /\ entry_conn' = [entry_conn EXCEPT ![w] = NoConn]
    /\ UNCHANGED <<sql_query, validation_result, conn, cache_vars,
                   validator_vars>>

\* the caller takes the tool output; the thread is free for the next call
Return(w) ==
    /\ pc[w] = "returned"
    /\ pc' = [pc EXCEPT ![w] = "idle"]
    /\ sql_query' = [sql_query EXCEPT ![w] = NoText]
    /\ validation_result' = [validation_result EXCEPT ![w] = NoResult]
    /\ path_index' = [path_index EXCEPT ![w] = 0]
    /\ conn' = [conn EXCEPT ![w] = NoConn]
    /\ tool_output' = [tool_output EXCEPT ![w] = "(none)"]
    /\ attempted' = [attempted EXCEPT ![w] = <<>>]
    /\ entry_conn' = [entry_conn EXCEPT ![w] = NoConn]
    /\ called' = [called EXCEPT ![w] = {}]
    /\ ran' = [ran EXCEPT ![w] = NoRan]
    /\ UNCHANGED <<cache_vars, validator_vars>>

Next ==
    \/ \E w \in Workers, q \in Candidates, r \in BOOLEAN :
           ExecuteSqlCall(w, q, r) /\ UNCHANGED agent
    \/ \E w \in Workers : GetDbConnection(w) /\ UNCHANGED agent
    \/ \E w \in Workers, o \in OpenOutcomes :
           Connect(w, o) /\ UNCHANGED agent
    \/ \E w \in Workers, r \in BOOLEAN : ConnExecute(w, r) /\ UNCHANGED agent
    \/ \E w \in Workers : Return(w) /\ UNCHANGED agent

Spec == Init /\ [][Next]_vars

\* ======================================= validate_sql applied to all texts
InitValidate ==
    /\ v_pc = "call"
    /\ v_query \in Texts(MaxLen)
    /\ v_raises \in BOOLEAN
    /\ v_result = NoResult
    /\ v_again = NoResult
    /\ WorkersIdle
    /\ AgentOff

\* validation_result = validate_sql(sql_query)
Validate ==
    /\ v_pc = "call"
    /\ v_result' = validate_sql(v_query, v_raises)
    /\ v_pc' = "validated"
    /\ UNCHANGED <<v_query, v_raises, v_again, cache_vars, call_vars, agent>>

\* validate_sql applied to the text of a "Valid: ..." result
Revalidate ==
    /\ v_pc = "validated"
    /\ v_result.status = "Valid"
    /\ v_again' = validate_sql(v_result.clean_query, v_raises)
    /\ v_pc' = "revalidated"
    /\ UNCHANGED <<v_query, v_raises, v_result, cache_vars, call_vars, agent>>

NextValidate == Validate \/ Revalidate

SpecValidate == InitValidate /\ [][NextValidate]_vars

\* ================================================================= claims
Validated == v_pc \in {"validated", "revalidated"}

Multiple(r) == r.message = "Multiple SQL statements detected"
Forbidden(r) == r.message = "Forbidden SQL statements detected"

\* C1: conn.execute runs a candidate only after validate_sql accepted that
\* very text; when validate_sql rejects, execute_sql returns its "Cannot
\* execute" text having called neither get_db_connection nor conn.execute.
C1_ExecuteOnlyIfAccepted ==
    \A w \in Workers :
        /\ ran[w] # NoRan =>
              /\ validation_result[w].status = "Valid"
              /\ ran[w].text = sql_query[w]
              /\ "validate_sql" \in called[w]
        /\ "get_db_connection" \in called[w] =>
              validation_result[w].status = "Valid"
        /\ validation_result[w].status = "ERROR" =>
              /\ pc[w] = "returned"
              /\ tool_output[w] = "ERROR: Cannot execute SQL"
              /\ called[w] = {"validate_sql"}
              /\ ran[w] = NoRan

\* one thread has run an accepted text while another was turned away
C1_Witness ==
    \E w, u \in Workers :
        /\ ran[w] # NoRan
        /\ pc[u] = "returned"
        /\ validation_result[u].status = "ERROR"


\* C2: every statement that reaches the connection has root type SELECT.
C2_OnlySelectReachesDb ==
    \A w \in Workers :
        (ran[w] # NoRan /\ validation_result[w].clean_query # <<>>)
            => RootType(ran[w].text) = "SELECT"

\* C3: a terminator-free text holding a forbidden-operation keyword as a
\* whole word is rejected with the "Forbidden SQL statements" reason and the
\* rejection names a keyword of the text.  (Texts with a terminator are left
\* out: the multiple-statement layer comes first.)
C3_ForbiddenOperationNamed ==
    (Validated /\ ~v_raises /\ count_semicolon(v_query) = 0
     /\ has_dangerous_word(v_query))
        => /\ Forbidden(v_result)
           /\ v_result.forbidden_list # <<>>
           /\ \A i \in 1..Len(v_result.forbidden_list) :
                  \E j \in 1..Len(v_query) :
                      v_query[j] = v_result.forbidden_list[i]

\* C4 as stated: two or more terminators, or one terminator that is not the
\* last character, give the multiple-statement rejection; exactly one
\* terminator as last character does not.
C4_Original ==
    Validated =>
        /\ (count_semicolon(v_query) >= 2
            \/ (count_semicolon(v_query) = 1 /\ ~endswith_semicolon(v_query)))
              => Multiple(v_result)
        /\ (count_semicolon(v_query) = 1 /\ endswith_semicolon(v_query))
              => ~Multiple(v_result)

\* C4 (amended): two or more terminators, or one terminator followed by
\* anything other than whitespace, give the multiple-statement rejection;
\* exactly one terminator followed by nothing but whitespace does not.
C4_MultipleStatements ==
    Validated =>
        /\ (count_semicolon(v_query) >= 2
            \/ (count_semicolon(v_query) = 1
                /\ ~endswith_semicolon(rstrip(v_query))))
              => Multiple(v_result)
        /\ (count_semicolon(v_query) = 1
            /\ endswith_semicolon(rstrip(v_query)))
              => ~Multiple(v_result)

\* one terminator, whitespace after it, and no multiple-statement rejection
C4_Witness ==
    /\ Validated
    /\ count_semicolon(v_query) = 1
    /\ ~endswith_semicolon(v_query)
    /\ endswith_semicolon(rstrip(v_query))
    /\ ~Multiple(v_result)

\* only spaces, backtick triples and "sql" directly after a backtick triple
OnlyWhitespaceOrFence(text) ==
    \A i \in 1..Len(text) :
        \/ text[i] \in {" ", "BT3"}
        \/ (text[i] = "sql" /\ i > 1 /\ text[i - 1] = "BT3")

\* C5: a text that is empty or only whitespace and fence markup is
\* rejected, and no accepted result carries an empty text.
C5_EmptyQueryRejected ==
    Validated =>
        /\ OnlyWhitespaceOrFence(v_query) => v_result.status = "ERROR"
        /\ v_result.status = "Valid" => v_result.clean_query # <<>>

\* C6: validating the text of an accepted result accepts it again and
\* returns the same text.
C6_Idempotent ==
    (v_pc = "revalidated" /\ ~v_raises) =>
        /\ v_again.status = "Valid"
        /\ v_again.clean_query = v_result.clean_query

\* C7: a call that finds the cache empty tries the paths in list order up to
\* the first one that opens, returns the connection bound to it and tries
\* none after it; a call that finds a cached connection tries no path and
\* returns that connection.  The connection a call returns is the one in
\* the thread's slot, and the slot changes only while a call that found it
\* empty is in the loop, so every later call returns the same connection.
C7_FirstSuccessThenCached ==
    /\ [](\A w \in Workers :
            pc[w] = "execute" =>
                /\ conn[w] # NoConn
                /\ conn[w] = thread_local[w].conn
                /\ IF entry_conn[w] = NoConn
                   THEN LET n == Len(attempted[w])
                        IN /\ n >= 1
                           /\ \A i \in 1..n :
                                  /\ attempted[w][i][1] = i
                                  /\ attempted[w][i][2] = "ok" <=> i = n
                           /\ Connection(conn[w]).db_path = n
                   ELSE /\ attempted[w] = <<>>
                        /\ conn[w] = entry_conn[w])
    /\ [][\A w \in Workers :
            thread_local'[w].conn # thread_local[w].conn
                => entry_conn[w] = NoConn /\ pc[w] = "connect"]_vars

\* a later call is served from the cache after the first path had failed
C7_Witness ==
    \E w \in Workers :
        /\ pc[w] = "execute"
        /\ entry_conn[w] # NoConn
        /\ Connection(conn[w]).db_path = 2
        /\ Connection(conn[w]).extensions_loaded

\* C8: a thread is only ever returned, and only ever caches, a connection it
\* opened itself, and a thread's slot changes only in that thread's own
\* connect step.
C8_PrivateSlots ==
    /\ [](\A w \in Workers :
            /\ pc[w] = "execute" => opened_by(conn[w]) = w
            /\ thread_local[w].conn # NoConn
                  => opened_by(thread_local[w].conn) = w)
    /\ [][\A w \in Workers :
            thread_local'[w] # thread_local[w] => pc[w] = "connect"]_vars

\* two threads in get_db_connection at once, each ending with its own handle
C8_Witness ==
    \E w, u \in Workers :
        /\ w # u
        /\ pc[w] = "execute" /\ pc[u] = "execute"
        /\ conn[w] # conn[u]
        /\ entry_conn[w] = NoConn /\ entry_conn[u] = NoConn

\* ========================================================= the agent loop
\* create_agent(llm_model, tools=[generate_sql, execute_sql, fix_sql_error,
\* result_analyzer], system_prompt): the language model answers each turn
\* with a tool call or with the final message.  No statement of the program
\* orders or counts the tool calls, so every choice is open to the model.
\* A tool is called once the model holds its arguments: execute_sql takes
\* the text of the last generate_sql or fix_sql_error call, fix_sql_error a
\* query and an error message, result_analyzer a query and a tool output.
\*
\* collaborators fixes what the language-model tools and the database do:
\*   "always_unsafe"  generate_sql and fix_sql_error return texts that
\*                    validate_sql rejects
\*   "fail_fail_ok"   they return a text validate_sql accepts; the data
\*                    source opens; conn.execute raises on its first two
\*                    calls and returns rows after
\*   "no_data_source" they return a text validate_sql accepts; duckdb.connect
\*                    raises for every path
Scenarios == {"always_unsafe", "fail_fail_ok", "no_data_source"}

Accepts(q) == ~startswith_ERROR(validate_sql(q, FALSE))

\* texts the language model may return
Generated ==
    { <<"SELECT", ";">>, <<"SELECT">>, <<"DROP">>, <<"SELECT", ";", "DROP">> }

CollaboratorTexts(c) ==
    IF c = "always_unsafe" THEN {q \in Generated : ~Accepts(q)}
    ELSE {q \in Generated : Accepts(q) /\ RootTypeIsSelect(q)}

InitAgent ==
    /\ ValidatorOff
    /\ WorkersIdle
    /\ agent \in {AgentIdle(c) : c \in Scenarios}

AgentThread == 1

CanCall == agent.pc = "model" /\ agent.tool_calls < MaxToolCalls

\* tool generate_sql: llm.invoke(prompt).content.strip()
CallGenerateSql ==
    /\ CanCall
    /\ \E q \in CollaboratorTexts(agent.collaborators) :
           agent' = [agent EXCEPT !.candidate = q, !.tool_calls = @ + 1]
    /\ UNCHANGED <<validator_vars, cache_vars, call_vars>>

IsErrorOutput(output) ==
    output \in {"ERROR: Cannot execute SQL", "ERROR: Failed to execute SQL query"}

\* tool fix_sql_error: llm.invoke(prompt).content.strip()
CallFixSqlError ==
    /\ CanCall
    /\ agent.candidate # NoText
    /\ IsErrorOutput(agent.last_output)
    /\ \E q \in CollaboratorTexts(agent.collaborators) :
           agent' = [agent EXCEPT
                       !.candidate = q, !.tool_calls = @ + 1,
                       !.fix_calls = @ + 1,
                       !.calls_after_no_source =
                           IF agent.no_source_calls > 0 THEN @ + 1 ELSE @]
    /\ UNCHANGED <<validator_vars, cache_vars, call_vars>>

\* tool execute_sql, entered on the agent's thread
CallExecuteSql ==
    /\ CanCall
    /\ agent.candidate # NoText
    /\ \E r \in BOOLEAN : ExecuteSqlCall(AgentThread, agent.candidate, r)
    /\ agent' = [agent EXCEPT
                   !.pc = "tool", !.attempts = @ + 1, !.tool_calls = @ + 1,
                   !.calls_after_no_source =
                       IF agent.no_source_calls > 0 THEN @ + 1 ELSE @]

\* conn.execute inside the tool call, with the outcome the scenario fixes
AgentConnExecute ==
    /\ agent.pc = "tool"
    /\ \E r \in BOOLEAN :
           /\ agent.collaborators = "fail_fail_ok" => (r <=> agent.db_calls < 2)
           /\ ConnExecute(AgentThread, r)
    /\ agent' = [agent EXCEPT !.db_calls = @ + 1]

\* the call ended with the raise of get_db_connection's for-else: every path
\* was tried and the body of none ran through
NoDataSource(w) ==
    /\ pc[w] = "returned"
    /\ "get_db_connection" \in called[w]
    /\ "conn.execute" \notin called[w]

\* the tool message comes back to the model
ReceiveToolOutput ==
    /\ agent.pc = "tool"
    /\ Return(AgentThread)
    /\ agent' = [agent EXCEPT
                   !.pc = "model",
                   !.last_output = tool_output[AgentThread],
                   !.no_source_calls =
                       IF NoDataSource(AgentThread) THEN @ + 1 ELSE @,
                   !.rows_at = IF @ = -1 /\ tool_output[AgentThread] = "rows"
                               THEN agent.attempts - 1 ELSE @]

\* tool result_analyzer
CallResultAnalyzer ==
    /\ CanCall
    /\ agent.candidate # NoText
    /\ agent.last_output # "(none)"
    /\ agent' = [agent EXCEPT
                   !.analyzer_calls = @ + 1, !.tool_calls = @ + 1,
                   !.analyzer_early = @ \/ agent.rows_at = -1]
    /\ UNCHANGED <<validator_vars, cache_vars, call_vars>>

\* the model answers without a tool call: the graph reaches END
FinalAnswer ==
    /\ agent.pc = "model"
    /\ agent' = [agent EXCEPT !.pc = "end"]
    /\ UNCHANGED <<validator_vars, cache_vars, call_vars>>

NextAgent ==
    \/ CallGenerateSql
    \/ CallFixSqlError
    \/ CallExecuteSql
    \/ GetDbConnection(AgentThread) /\ UNCHANGED agent
    \/ \E o \in OpenOutcomes :
           /\ agent.collaborators = "fail_fail_ok" => o = "ok"
           /\ agent.collaborators = "no_data_source" => o = "connect_fails"
           /\ Connect(AgentThread, o) /\ UNCHANGED agent
    \/ AgentConnExecute
    \/ ReceiveToolOutput
    \/ CallResultAnalyzer
    \/ FinalAnswer

SpecAgent == InitAgent /\ [][NextAgent]_vars

\* the request has ended after at least one attempt and without rows
Exhausted == agent.pc = "end" /\ agent.attempts >= 1 /\ agent.rows_at = -1

\* the request has ended after an execution returned rows
Succeeded == agent.pc = "end" /\ agent.rows_at # -1

\* C9: with collaborators that only return rejected texts the database is
\* never invoked, no fourth attempt is made, and the request ends exhausted
\* only after exactly three attempts.
C9_ExhaustedAfterThreeAttempts ==
    agent.collaborators = "always_unsafe" =>
        /\ agent.db_calls = 0
        /\ agent.attempts <= 3
        /\ Exhausted => agent.attempts = 3

\* C10: with an accepted text whose execution raises twice and then returns
\* rows, and a data source that opens, a request that made an attempt ends
\* succeeded with the rows of attempt index 2, result_analyzer is called
\* exactly once, and never before rows were returned.
C10_SucceededAtThirdAttempt ==
    agent.collaborators = "fail_fail_ok" =>
        /\ ~agent.analyzer_early
        /\ agent.analyzer_calls <= 1
        /\ agent.rows_at \in {-1, 2}
        /\ (agent.pc = "end" /\ agent.attempts >= 1) =>
               (Succeeded /\ agent.rows_at = 2 /\ agent.analyzer_calls = 1)

\* C11: a call of execute_sql in which no path could be opened does not
\* return the text of an execution failure, and once such a call has come
\* back the request calls neither fix_sql_error nor execute_sql again.
C11_NoDataSourceAborts ==
    /\ NoDataSource(AgentThread) =>
           tool_output[AgentThread] # "ERROR: Failed to execute SQL query"
    /\ agent.calls_after_no_source = 0

\* C12: the text conn.execute is given is the clean_query of the accepted
\* validation result, terminator and fence stripped.
C12_RunsNormalizedText ==
    \A w \in Workers :
        ran[w] # NoRan =>
            /\ validation_result[w].status = "Valid"
            /\ ran[w].text = validation_result[w].clean_query

\* C13: every connection get_db_connection returns, newly opened or cached,
\* has had its four LOAD statements run through.
C13_ReturnedHandleHasExtensions ==
    \A w \in Workers :
        pc[w] = "execute" => Connection(conn[w]).extensions_loaded

\* C14: the clean_query of an accepted result holds no statement terminator
\* and no code-fence markup, opening or closing.
C14_NormalizedHasNoMarkup ==
    (Validated /\ v_result.status = "Valid") =>
        \A i \in 1..Len(v_result.clean_query) :
            v_result.clean_query[i] \notin {";", "BT3"}

\* C15: whether sqlparse classifies the text, finds nothing in it or throws,
\* the clean_query of an accepted result holds no dangerous word as a whole
\* word, no two adjacent minus signs and no slash-asterisk.
C15_NeverFailsOpen ==
    (Validated /\ v_result.status = "Valid") =>
        LET t == v_result.clean_query
        IN /\ \A i \in 1..Len(t) :
                  t[i] \in dangerous_words =>
                      \/ (i > 1 /\ IsWord(t[i - 1]))
                      \/ (i < Len(t) /\ IsWord(t[i + 1]))
           /\ \A i \in 1..Len(t) : t[i] # "/*"
           /\ \A i \in 1..(Len(t) - 1) : ~(t[i] = "-" /\ t[i + 1] = "-")

\* sqlparse threw on a text holding a dangerous word alone between two
\* spaces, and the pattern scan rejected it
C15_Witness ==
    /\ Validated
    /\ v_raises
    /\ \E i \in 2..(Len(v_query) - 1) :
           /\ v_query[i] \in dangerous_words
           /\ v_query[i - 1] = " " /\ v_query[i + 1] = " "
    /\ count_semicolon(v_query) = 0
    /\ v_result.message = "Unsafe SQL pattern detected"

====
